---- MODULE Spec2Model ----
(***************************************************************************)
(* Model of the B+ tree of Python2/Data_Structures/b_plus_tree.py.         *)
(*                                                                         *)
(* The nodes live in a heap: heap[x] is the BPlusNode object with address  *)
(* x, `children` holds addresses and `next` is an address or None.  Every  *)
(* method of BPlusTree is an operator from a tree value                    *)
(* [heap, root, err] to a tree value; err records an IndexError raised by  *)
(* a list access inside the method, with the mutations made before it.     *)
(* Python indices are kept 0-based in the operators' arguments and locals; *)
(* the sequence accesses add one.                                          *)
(***************************************************************************)
EXTENDS Integers, Sequences, FiniteSets, TLC

VARIABLES
    heap,     \* the BPlusNode objects, by address
    root,     \* self.root
    t,        \* self.t
    present,  \* the keys inserted and not deleted since
    raised,   \* the last call ended in an IndexError, which ends the run
    calls,    \* the number of calls made
    last      \* the last call: its method and its argument

vars == <<heap, root, t, present, raised, calls, last>>

\* ------------------------------------------------------------------ bounds
\* keys offered to insert and delete when present keys may be inserted again
MaxKey == 3
\* keys offered when only absent keys are inserted
MaxDistinctKey == 7
\* keys offered when the tree is only filled
MaxInsertKey == 9
\* the number of insert and delete calls made on one tree
MaxCalls == 9
\* the minimum degrees t a tree is built with: 2..MaxDegree
MaxDegree == 3

Keys == 1..MaxKey
DistinctKeys == 1..MaxDistinctKey
InsertKeys == 1..MaxInsertKey
Degrees == 2..MaxDegree

\* ------------------------------------------------------- Python list model
None == 0

Range(s) == {s[j] : j \in 1..Len(s)}

\* list.insert(i, e) for 0 <= i <= len(s)
ListInsert(s, i, e) == SubSeq(s, 1, i) \o <<e>> \o SubSeq(s, i + 1, Len(s))

\* list.pop(i) for 0 <= i < len(s): the list without element i
ListPop(s, i) == SubSeq(s, 1, i) \o SubSeq(s, i + 2, Len(s))

\* s[a:] and s[:a] for 0 <= a
SliceFrom(s, a) == SubSeq(s, a + 1, Len(s))
SliceTo(s, a) == SubSeq(s, 1, IF a < Len(s) THEN a ELSE Len(s))

\* ------------------------------------------------------------------- nodes
BPlusNode(isLeaf) ==
    [leaf |-> isLeaf, keys |-> <<>>, children |-> <<>>, next |-> None]

\* the tree object: its nodes, its root and whether the running call raised;
\* entered lists, for the running delete, the number of keys each node held
\* when lines 90 and 109 descended into it
Tree(h, r) == [heap |-> h, root |-> r, err |-> FALSE, entered |-> <<>>]

Raise(T) == [T EXCEPT !.err = TRUE]

\* i = 0; while i < len(keys) and k > keys[i]: i += 1
RECURSIVE ScanUp(_, _, _)
ScanUp(keys, k, i) ==
    IF i < Len(keys) /\ k > keys[i + 1] THEN ScanUp(keys, k, i + 1) ELSE i

\* i = len(keys) - 1; while i >= 0 and k < keys[i]: i -= 1
RECURSIVE ScanDown(_, _, _)
ScanDown(keys, k, i) ==
    IF i >= 0 /\ k < keys[i + 1] THEN ScanDown(keys, k, i - 1) ELSE i

\* ------------------------------------------------------------------ search
NotFound == [kind |-> "none", node |-> None, idx |-> 0]
SearchRaise == [kind |-> "raise", node |-> None, idx |-> 0]

RECURSIVE search_internal(_, _, _)
search_internal(h, x, k) ==
    LET i == ScanUp(h[x].keys, k, 0)
    IN  IF h[x].leaf
        THEN IF i < Len(h[x].keys) /\ h[x].keys[i + 1] = k
             THEN [kind |-> "found", node |-> x, idx |-> i]
             ELSE NotFound
        ELSE IF i < Len(h[x].children)
             THEN search_internal(h, h[x].children[i + 1], k)
             ELSE SearchRaise

search(T, k) == search_internal(T.heap, T.root, k)

\* ------------------------------------------------------------------ insert
\* split_child keeping only the keys below the median in the left node
\* (y.keys = y.keys[:t - 1])
split_child_drops_median(T, x, i) ==
    LET h  == T.heap
        y  == h[x].children[i + 1]
        z  == Len(h) + 1
        yn == h[y]
        zn == [leaf     |-> yn.leaf,
               keys     |-> SliceFrom(yn.keys, t),
               children |-> IF yn.leaf THEN <<>> ELSE SliceFrom(yn.children, t),
               next     |-> IF yn.leaf THEN yn.next ELSE None]
        h1 == Append(h, zn)
    IN  [T EXCEPT !.heap =
            [h1 EXCEPT ![x].children = ListInsert(@, i + 1, z),
                       ![x].keys     = ListInsert(@, i, yn.keys[t]),
                       ![y].keys     = SliceTo(yn.keys, t - 1),
                       ![y].children = IF yn.leaf THEN @ ELSE SliceTo(@, t),
                       ![y].next     = IF yn.leaf THEN z ELSE @]]

\* split_child making every new sibling a leaf (z = BPlusNode(leaf=True))
split_child_sibling_leaf(T, x, i) ==
    LET h  == T.heap
        y  == h[x].children[i + 1]
        z  == Len(h) + 1
        yn == h[y]
        zn == [leaf     |-> TRUE,
               keys     |-> SliceFrom(yn.keys, t),
               children |-> IF yn.leaf THEN <<>> ELSE SliceFrom(yn.children, t),
               next     |-> IF yn.leaf THEN yn.next ELSE None]
        h1 == Append(h, zn)
    IN  [T EXCEPT !.heap =
            [h1 EXCEPT ![x].children = ListInsert(@, i + 1, z),
                       ![x].keys     = ListInsert(@, i, yn.keys[t]),
                       ![y].keys     = SliceTo(yn.keys, t),
                       ![y].children = IF yn.leaf THEN @ ELSE SliceTo(@, t),
                       ![y].next     = IF yn.leaf THEN z ELSE @]]

split_child(T, x, i) ==
    LET h  == T.heap
        y  == h[x].children[i + 1]
        z  == Len(h) + 1
        yn == h[y]
        zn == [leaf     |-> yn.leaf,
               keys     |-> SliceFrom(yn.keys, t),
               children |-> IF yn.leaf THEN <<>> ELSE SliceFrom(yn.children, t),
               next     |-> IF yn.leaf THEN yn.next ELSE None]
        h1 == Append(h, zn)
    IN  [T EXCEPT !.heap =
            [h1 EXCEPT ![x].children = ListInsert(@, i + 1, z),
                       ![x].keys     = ListInsert(@, i, yn.keys[t]),
                       ![y].keys     = SliceTo(yn.keys, t),
                       ![y].children = IF yn.leaf THEN @ ELSE SliceTo(@, t),
                       ![y].next     = IF yn.leaf THEN z ELSE @]]

RECURSIVE insert_non_full(_, _, _)
insert_non_full(T, x, k) ==
    LET n  == T.heap[x]
        i0 == ScanDown(n.keys, k, Len(n.keys) - 1)
        i  == i0 + 1
    IN  IF n.leaf
        THEN [T EXCEPT !.heap[x].keys = ListInsert(n.keys, i0 + 1, k)]
        ELSE IF i >= Len(n.children)
             THEN Raise(T)
             ELSE IF Len(T.heap[n.children[i + 1]].keys) = 2 * t - 1
                  THEN LET T1 == split_child(T, x, i)
                           j  == IF k > T1.heap[x].keys[i + 1] THEN i + 1 ELSE i
                       IN  insert_non_full(T1, T1.heap[x].children[j + 1], k)
                  ELSE insert_non_full(T, n.children[i + 1], k)

insert_keeps_root(T, k) == insert_non_full(T, T.root, k)

insert(T, k) ==
    IF Len(T.heap[T.root].keys) = 2 * t - 1
    THEN LET new_root == Len(T.heap) + 1
             h1 == Append(T.heap,
                          [BPlusNode(FALSE) EXCEPT !.children = <<T.root>>])
             T1 == split_child([T EXCEPT !.heap = h1, !.root = new_root],
                               new_root, 0)
         IN  insert_non_full(T1, new_root, k)
    ELSE insert_non_full(T, T.root, k)

\* ------------------------------------------------------------------ delete
\* a key read out of the tree, or the IndexError of reading it
Got(v) == [ok |-> TRUE, val |-> v]
GotRaise == [ok |-> FALSE, val |-> 0]

RECURSIVE rightmost_key(_, _)
rightmost_key(h, current) ==
    IF h[current].leaf
    THEN IF h[current].keys = <<>> THEN GotRaise
         ELSE Got(h[current].keys[Len(h[current].keys)])
    ELSE IF h[current].children = <<>> THEN GotRaise
         ELSE rightmost_key(h, h[current].children[Len(h[current].children)])

RECURSIVE leftmost_key(_, _)
leftmost_key(h, current) ==
    IF h[current].leaf
    THEN IF h[current].keys = <<>> THEN GotRaise
         ELSE Got(h[current].keys[1])
    ELSE IF h[current].children = <<>> THEN GotRaise
         ELSE leftmost_key(h, h[current].children[1])

get_pred(T, x, i) == rightmost_key(T.heap, T.heap[x].children[i + 1])

get_succ(T, x, i) == leftmost_key(T.heap, T.heap[x].children[i + 2])

borrow_from_prev(T, x, i) ==
    LET h == T.heap
        child == h[x].children[i + 1]
        sibling == h[x].children[i]
    IN  IF i >= Len(h[x].children) \/ i - 1 >= Len(h[x].keys)
        THEN Raise(T)
        ELSE LET h1 == [h EXCEPT ![child].keys = <<h[x].keys[i]>> \o @]
             IN  IF h[sibling].keys = <<>>
                 THEN Raise([T EXCEPT !.heap = h1])
                 ELSE LET sk == h1[sibling].keys
                          h2 == [h1 EXCEPT ![x].keys[i] = sk[Len(sk)],
                                           ![sibling].keys = SliceTo(sk, Len(sk) - 1)]
                      IN  IF h2[child].leaf
                          THEN [T EXCEPT !.heap = h2]
                          ELSE IF h2[sibling].children = <<>>
                               THEN Raise([T EXCEPT !.heap = h2])
                               ELSE LET sc == h2[sibling].children
                                    IN  [T EXCEPT !.heap =
                                           [h2 EXCEPT ![child].children = <<sc[Len(sc)]>> \o @,
                                                      ![sibling].children = SliceTo(sc, Len(sc) - 1)]]

borrow_from_next(T, x, i) ==
    LET h == T.heap
        child == h[x].children[i + 1]
        sibling == h[x].children[i + 2]
    IN  IF i + 1 >= Len(h[x].children) \/ i >= Len(h[x].keys)
        THEN Raise(T)
        ELSE LET h1 == [h EXCEPT ![child].keys = Append(@, h[x].keys[i + 1])]
             IN  IF h[sibling].keys = <<>>
                 THEN Raise([T EXCEPT !.heap = h1])
                 ELSE LET sk == h1[sibling].keys
                          h2 == [h1 EXCEPT ![x].keys[i + 1] = sk[1],
                                           ![sibling].keys = Tail(sk)]
                      IN  IF h2[child].leaf
                          THEN [T EXCEPT !.heap = h2]
                          ELSE IF h2[sibling].children = <<>>
                               THEN Raise([T EXCEPT !.heap = h2])
                               ELSE LET sc == h2[sibling].children
                                    IN  [T EXCEPT !.heap =
                                           [h2 EXCEPT ![child].children = Append(@, sc[1]),
                                                      ![sibling].children = Tail(sc)]]

merge_keeps_next(T, x, i) ==
    LET h == T.heap
        child == h[x].children[i + 1]
        sibling == h[x].children[i + 2]
    IN  IF i + 1 >= Len(h[x].children) \/ i >= Len(h[x].keys)
        THEN Raise(T)
        ELSE [T EXCEPT !.heap =
                [h EXCEPT ![child].keys = Append(@, h[x].keys[i + 1]) \o h[sibling].keys,
                          ![child].children = IF h[child].leaf THEN @
                                              ELSE @ \o h[sibling].children,
                          ![x].keys = ListPop(@, i),
                          ![x].children = ListPop(@, i + 1)]]

merge(T, x, i) ==
    LET h == T.heap
        child == h[x].children[i + 1]
        sibling == h[x].children[i + 2]
    IN  IF i + 1 >= Len(h[x].children) \/ i >= Len(h[x].keys)
        THEN Raise(T)
        ELSE [T EXCEPT !.heap =
                [h EXCEPT ![child].keys = Append(@, h[x].keys[i + 1]) \o h[sibling].keys,
                          ![child].children = IF h[child].leaf THEN @
                                              ELSE @ \o h[sibling].children,
                          ![x].keys = ListPop(@, i),
                          ![x].children = ListPop(@, i + 1),
                          ![child].next = h[sibling].next]]

\* len(x.children[j].keys) >= t, for a j that indexes x.children
HasSpare(T, x, j) == Len(T.heap[T.heap[x].children[j + 1]].keys) >= t

\* lines 92-108: the fix-up of children[i] before the descent
fix_child(T, x, i) ==
    LET n == Len(T.heap[x].children)
    IN  IF i # 0 /\ i + 2 < n
        THEN IF HasSpare(T, x, i - 1) THEN borrow_from_prev(T, x, i)
             ELSE IF HasSpare(T, x, i + 1) THEN borrow_from_next(T, x, i)
             ELSE merge(T, x, i)
        ELSE IF i = 0
        THEN IF n < 2 THEN Raise(T)
             ELSE IF HasSpare(T, x, i + 1) THEN borrow_from_next(T, x, i)
             ELSE merge(T, x, i)
        ELSE IF i + 1 = n
        THEN IF HasSpare(T, x, i - 1) THEN borrow_from_prev(T, x, i)
             ELSE merge(T, x, i - 1)
        ELSE T

RECURSIVE delete_internal(_, _, _)
RECURSIVE delete_from_internal_node(_, _, _, _)

\* self._delete_internal(x.children[i], k), after a step that may have raised
descend(T, x, i, k) ==
    IF T.err THEN T
    ELSE IF i >= Len(T.heap[x].children) THEN Raise(T)
    ELSE delete_internal(T, T.heap[x].children[i + 1], k)

\* the descent of lines 90 and 109 into x.children[i], noted in entered
enter(T, x, i) ==
    IF T.err \/ i >= Len(T.heap[x].children) THEN T
    ELSE [T EXCEPT !.entered =
            Append(@, Len(T.heap[T.heap[x].children[i + 1]].keys))]

delete_internal(T, x, k) ==
    LET n == T.heap[x]
        i == ScanUp(n.keys, k, 0)
    IN  IF n.leaf
        THEN IF i < Len(n.keys) /\ n.keys[i + 1] = k
             THEN [T EXCEPT !.heap[x].keys = ListPop(@, i)]
             ELSE T
        ELSE IF i < Len(n.keys) /\ n.keys[i + 1] = k
        THEN delete_from_internal_node(T, x, k, i)
        ELSE IF i >= Len(n.children) THEN Raise(T)
        ELSE IF HasSpare(T, x, i) THEN descend(enter(T, x, i), x, i, k)
        ELSE descend(enter(fix_child(T, x, i), x, i), x, i, k)

delete_from_internal_node(T, x, k, i) ==
    LET n == T.heap[x]
    IN  IF n.leaf
        THEN IF n.keys[i + 1] = k
             THEN [T EXCEPT !.heap[x].keys = ListPop(@, i)]
             ELSE T
        ELSE IF i >= Len(n.children) THEN Raise(T)
        ELSE IF HasSpare(T, x, i)
        THEN LET p == get_pred(T, x, i)
             IN  IF ~p.ok THEN Raise(T)
                 ELSE descend([T EXCEPT !.heap[x].keys[i + 1] = p.val], x, i, p.val)
        ELSE IF i + 1 >= Len(n.children) THEN Raise(T)
        ELSE IF HasSpare(T, x, i + 1)
        THEN LET s == get_succ(T, x, i)
             IN  IF ~s.ok THEN Raise(T)
                 ELSE descend([T EXCEPT !.heap[x].keys[i + 1] = s.val], x, i + 1, s.val)
        ELSE descend(merge(T, x, i), x, i, k)

delete(T, k) ==
    LET T1 == delete_internal(T, T.root, k)
        r  == T1.heap[T1.root]
    IN  IF T1.err THEN T1
        ELSE IF Len(r.keys) = 0 /\ ~r.leaf
             THEN IF r.children = <<>> THEN Raise(T1)
                  ELSE [T1 EXCEPT !.root = r.children[1]]
             ELSE T1

\* ------------------------------------------------------------- range query
\* the scan of lines 168-175 from leaf x on; fuel bounds the leaves visited
RECURSIVE scan_leaves(_, _, _, _, _)
RECURSIVE scan_keys(_, _, _, _)
RECURSIVE scan_keys_open_start(_, _, _, _)

\* scan_keys with the lower bound excluded (start < key <= end)
scan_keys_open_start(keys, j, start, end) ==
    IF j > Len(keys) THEN [out |-> <<>>, stop |-> FALSE]
    ELSE IF start < keys[j] /\ keys[j] <= end
         THEN LET r == scan_keys_open_start(keys, j + 1, start, end)
              IN  [out |-> <<keys[j]>> \o r.out, stop |-> r.stop]
         ELSE IF keys[j] > end THEN [out |-> <<>>, stop |-> TRUE]
         ELSE scan_keys_open_start(keys, j + 1, start, end)

\* the for loop over one leaf's keys: the keys collected and whether the
\* scan returned at a key beyond end
scan_keys(keys, j, start, end) ==
    IF j > Len(keys) THEN [out |-> <<>>, stop |-> FALSE]
    ELSE IF start <= keys[j] /\ keys[j] <= end
         THEN LET r == scan_keys(keys, j + 1, start, end)
              IN  [out |-> <<keys[j]>> \o r.out, stop |-> r.stop]
         ELSE IF keys[j] > end THEN [out |-> <<>>, stop |-> TRUE]
         ELSE scan_keys(keys, j + 1, start, end)

scan_leaves(h, x, start, end, fuel) ==
    IF x = None \/ fuel = 0 THEN <<>>
    ELSE LET r == scan_keys(h[x].keys, 1, start, end)
         IN  IF r.stop THEN r.out
             ELSE r.out \o scan_leaves(h, h[x].next, start, end, fuel - 1)

\* the leaf reached, or None for the IndexError of a missing child
RECURSIVE find_leaf(_, _, _)
find_leaf(h, x, k) ==
    IF h[x].leaf THEN x
    ELSE LET i == ScanUp(h[x].keys, k, 0)
         IN  IF i >= Len(h[x].children) THEN None
             ELSE find_leaf(h, h[x].children[i + 1], k)

RangeRaise == <<-1>>

range_query(T, start, end) ==
    LET leaf == find_leaf(T.heap, T.root, start)
    IN  IF leaf = None THEN RangeRaise
        ELSE scan_leaves(T.heap, leaf, start, end, Len(T.heap))

\* ------------------------------------------------- addresses are anonymous
\* The nodes a program can still reach, in the order a walk from the root
\* through children and next meets them.
RECURSIVE Walk(_, _, _)
Walk(h, stack, acc) ==
    IF stack = <<>> THEN acc
    ELSE LET x == Head(stack)
         IN  IF x \in Range(acc)
             THEN Walk(h, Tail(stack), acc)
             ELSE Walk(h,
                       h[x].children
                         \o (IF h[x].next # None THEN <<h[x].next>> ELSE <<>>)
                         \o Tail(stack),
                       Append(acc, x))

\* Unreachable nodes are garbage; the reachable ones are renumbered in walk
\* order, which changes no observable behaviour of the tree.
Normalize(T) ==
    LET order == Walk(T.heap, <<T.root>>, <<>>)
        new(x) == IF x = None THEN None
                  ELSE CHOOSE j \in 1..Len(order) : order[j] = x
        move(n) == [leaf     |-> n.leaf,
                    keys     |-> n.keys,
                    children |-> [j \in 1..Len(n.children) |-> new(n.children[j])],
                    next     |-> new(n.next)]
    IN  [heap |-> [j \in 1..Len(order) |-> move(T.heap[order[j]])],
         root |-> 1,
         err  |-> T.err]

\* ------------------------------------------------------------ observations
Cur == Tree(heap, root)

RECURSIVE leftmost(_, _)
leftmost(h, x) == IF h[x].leaf \/ h[x].children = <<>> THEN x
                  ELSE leftmost(h, h[x].children[1])

\* the keys met by following next from leaf x, at most fuel leaves
RECURSIVE ChainFrom(_, _, _)
ChainFrom(h, x, fuel) ==
    IF x = None \/ fuel = 0 THEN <<>>
    ELSE h[x].keys \o ChainFrom(h, h[x].next, fuel - 1)

LeafChain(T) == ChainFrom(T.heap, leftmost(T.heap, T.root), Len(T.heap))

\* the nodes of the tree below x, each with its depth when x is at depth d
RECURSIVE Below(_, _, _)
Below(h, x, d) ==
    {<<x, d>>} \cup
    UNION {Below(h, h[x].children[j], d + 1) : j \in 1..Len(h[x].children)}

TreeNodes(T) == {p[1] : p \in Below(T.heap, T.root, 0)}

LeafDepths(T) == {p[2] : p \in {q \in Below(T.heap, T.root, 0) : T.heap[q[1]].leaf}}

\* the elements of a set of integers in ascending order
RECURSIVE SortedSeq(_)
SortedSeq(S) ==
    IF S = {} THEN <<>>
    ELSE LET m == CHOOSE x \in S : \A y \in S : x <= y
         IN  <<m>> \o SortedSeq(S \ {m})

\* ----------------------------------------------------------------- actions
Init ==
    /\ t \in Degrees
    /\ heap = <<BPlusNode(TRUE)>>
    /\ root = 1
    /\ present = {}
    /\ raised = FALSE
    /\ calls = 0
    /\ last = [op |-> "new", key |-> 0]

Commit(T) ==
    LET N == Normalize(T)
    IN  /\ heap' = N.heap
        /\ root' = N.root
        /\ raised' = N.err

Insert(k) ==
    /\ ~raised
    /\ calls < MaxCalls
    /\ Commit(insert(Cur, k))
    /\ present' = present \cup {k}
    /\ calls' = calls + 1
    /\ last' = [op |-> "insert", key |-> k]
    /\ UNCHANGED t

Delete(k) ==
    /\ ~raised
    /\ calls < MaxCalls
    /\ Commit(delete(Cur, k))
    /\ present' = present \ {k}
    /\ calls' = calls + 1
    /\ last' = [op |-> "delete", key |-> k]
    /\ UNCHANGED t

Next == \E k \in Keys : Insert(k) \/ Delete(k)

Spec == Init /\ [][Next]_vars

\* the callers that never insert a key they hold: a restriction of Next
InsertAbsent(k) == k \notin present /\ Insert(k)

NextDistinct == \E k \in DistinctKeys : InsertAbsent(k) \/ Delete(k)

SpecDistinct == Init /\ [][NextDistinct]_vars

\* the callers that only fill the tree, with distinct keys
NextInsert == \E k \in InsertKeys : InsertAbsent(k)

SpecInsert == Init /\ [][NextInsert]_vars

\* the callers of the t = 2 scenario: its eight keys inserted, each once, in
\* any order, then delete(6)
Script == <<10, 20, 5, 6, 12, 30, 7, 17>>

ScenarioKeys == Range(Script)

ScenarioDelete == present = ScenarioKeys /\ Delete(6)

NextScenario == (\E k \in ScenarioKeys : InsertAbsent(k)) \/ ScenarioDelete

SpecScenario == Init /\ [][NextScenario]_vars

\* the constructor called with any minimum degree, those below 2 included:
\* __init__ stores t as it is given
InitAnyDegree ==
    /\ t \in 0..MaxDegree
    /\ heap = <<BPlusNode(TRUE)>>
    /\ root = 1
    /\ present = {}
    /\ raised = FALSE
    /\ calls = 0
    /\ last = [op |-> "new", key |-> 0]

SpecAnyDegree == InitAnyDegree /\ [][Next]_vars

\* ------------------------------------------------------------------ claims
\* every key a caller may ask about: the keys offered and one beyond each end
ProbeKeys == 0..(MaxKey + MaxDistinctKey + MaxInsertKey)

\* the keys search reports as found
Found(T) == {k \in ProbeKeys : search(T, k).kind = "found"}

\* the keys of a sorted sequence that lie in [low, high]
RECURSIVE Within(_, _, _)
Within(s, low, high) ==
    IF s = <<>> THEN <<>>
    ELSE IF low <= Head(s) /\ Head(s) <= high
         THEN <<Head(s)>> \o Within(Tail(s), low, high)
         ELSE Within(Tail(s), low, high)

\* C1: after any sequence of insert and delete calls, search(k) returns a
\* leaf and an offset holding k for every key k inserted and not deleted since.
C1_SearchFindsPresent ==
    ~raised =>
        \A k \in present :
            LET r == search(Cur, k)
            IN  r.kind = "found" /\ heap[r.node].keys[r.idx + 1] = k

\* C2: after any sequence of insert and delete calls, search(k) returns None
\* for every key k never inserted or deleted since its last insert.
C2_SearchMissesAbsent ==
    ~raised => \A k \in ProbeKeys \ present : search(Cur, k).kind = "none"

\* C3: after every insert or delete, the leaf chain walked from the leftmost
\* leaf is exactly the present keys in strictly ascending order, each once.
C3_ChainIsPresentKeys ==
    ~raised => LeafChain(Cur) = SortedSeq(present)

\* C4: after every insert or delete, every non-root node holds between t-1
\* and 2t-1 keys and the root holds at most 2t-1 keys.
C4_KeyCounts ==
    ~raised =>
        \A x \in TreeNodes(Cur) :
            /\ Len(heap[x].keys) <= 2 * t - 1
            /\ x # root => Len(heap[x].keys) >= t - 1

\* C5: after every insert or delete, every internal node with k keys has
\* exactly k+1 children.
C5_ChildCount ==
    ~raised =>
        \A x \in TreeNodes(Cur) :
            ~heap[x].leaf => Len(heap[x].children) = Len(heap[x].keys) + 1

\* C6: after every insert or delete, all leaves are at the same depth below
\* the root.
C6_LeavesSameDepth ==
    ~raised => Cardinality(LeafDepths(Cur)) <= 1

\* C6 witness: a delete has returned on a tree whose leaves are two levels
\* below the root.
C6_Witness ==
    ~raised /\ last.op = "delete" /\ LeafDepths(Cur) = {2}

\* C7: inserting distinct keys in any order into an empty tree and then
\* calling range_query over bounds covering them all (below and above every
\* key, or the least and the greatest key) returns every inserted key in
\* strictly ascending order, none missing, none twice.
C7_RoundTrip ==
    /\ ~raised
    /\ range_query(Cur, 0, MaxInsertKey + 1) = SortedSeq(present)
    /\ present # {} =>
         LET s == SortedSeq(present)
         IN  range_query(Cur, s[1], s[Len(s)]) = s

\* C7 witness: the keys filled a tree three levels high, so the root itself
\* was split, and the query returned eight keys or more.
C7_Witness ==
    /\ ~raised
    /\ LeafDepths(Cur) = {2}
    /\ Cardinality(present) >= 8
    /\ Len(range_query(Cur, 0, MaxInsertKey + 1)) = Cardinality(present)

\* C8: for a key k that is not present, insert(k) immediately followed by
\* delete(k) leaves the set of keys on the leaf chain and the set of keys
\* search finds equal to what they were before the insert.
C8_InsertDeleteInverse ==
    ~raised =>
        \A k \in DistinctKeys \ present :
            LET T1 == insert(Cur, k)
                T2 == IF T1.err THEN T1 ELSE delete(T1, k)
            IN  /\ ~T2.err
                /\ Range(LeafChain(T2)) = Range(LeafChain(Cur))
                /\ Found(T2) = Found(Cur)

\* C9: range_query(low, high) returns exactly the present keys k with
\* low <= k <= high in ascending order, each once, and the empty sequence
\* when low > high or no present key lies in the range.
C9_RangeQuery ==
    ~raised =>
        \A low, high \in 0..(MaxDistinctKey + 1) :
            range_query(Cur, low, high) = Within(SortedSeq(present), low, high)

\* C10: range_query(k, k) for a present key k returns the sequence [k].
C10_RangeSingleton ==
    ~raised => \A k \in present : range_query(Cur, k, k) = <<k>>

\* the tree after insert(s[1]), ..., insert(s[Len(s)]) on the tree T
RECURSIVE InsertAll(_, _)
InsertAll(T, s) ==
    IF s = <<>> THEN T ELSE InsertAll(insert(T, Head(s)), Tail(s))

RECURSIVE DeleteAll(_, _)
DeleteAll(T, s) ==
    IF s = <<>> THEN T ELSE DeleteAll(delete(T, Head(s)), Tail(s))

\* C11: with t = 2, after inserting 10, 20, 5, 6, 12, 30, 7, 17 (in that
\* order, and in any other) into an empty tree, range_query(6, 17) returns
\* [6, 7, 10, 12, 17]; after delete(6) on that tree it returns
\* [7, 10, 12, 17].
C11_Scenario ==
    /\ (t = 2 /\ calls = 8 /\ present = ScenarioKeys) =>
          ~raised /\ range_query(Cur, 6, 17) = <<6, 7, 10, 12, 17>>
    /\ (t = 2 /\ calls = 9 /\ last = [op |-> "delete", key |-> 6]) =>
          ~raised /\ range_query(Cur, 6, 17) = <<7, 10, 12, 17>>

\* C11 witness: delete(6) has returned on exactly the tree that the eight
\* inserts in the scenario's order build.
C11_Witness ==
    /\ t = 2 /\ ~raised /\ calls = 9
    /\ last = [op |-> "delete", key |-> 6]
    /\ heap = Normalize(delete(InsertAll(Tree(<<BPlusNode(TRUE)>>, 1), Script), 6)).heap
    /\ range_query(Cur, 6, 17) = <<7, 10, 12, 17>>

\* C12: delete(k) for a key k that is not present returns normally and leaves
\* the set of keys stored in the leaves, and so the keys search finds, as
\* they were before the call.
C12_DeleteAbsentNoOp ==
    ~raised =>
        \A k \in DistinctKeys \ present :
            LET T1 == delete(Cur, k)
            IN  /\ ~T1.err
                /\ Range(LeafChain(T1)) = Range(LeafChain(Cur))
                /\ Found(T1) = Found(Cur)

\* C13: constructing the index with t < 2 fails, so no tree with t < 2 exists
\* on which an insert or delete has been made.
C13_DegreeAtLeastTwo ==
    (last.op # "new" /\ ~raised) => t >= 2

\* the calls _split_child(x, i) that insert can make on the tree T: x an
\* internal node whose child i holds 2t-1 keys
FullChildren(T) ==
    {p \in TreeNodes(T) \X (0..(2 * t)) :
        /\ ~T.heap[p[1]].leaf
        /\ p[2] < Len(T.heap[p[1]].children)
        /\ Len(T.heap[T.heap[p[1]].children[p[2] + 1]].keys) = 2 * t - 1}

\* C14: splitting a full child y = x.children[i] puts y's key of index t-1
\* in the parent at position i, leaves in y exactly the t-1 keys of indices
\* 0..t-2, and gives the new sibling, at child position i+1, exactly the t-1
\* keys of indices t..2t-2.
C14_SplitHalves ==
    ~raised =>
        \A p \in FullChildren(Cur) :
            LET x  == p[1]
                i  == p[2]
                y  == heap[x].children[i + 1]
                ks == heap[y].keys
                h1 == split_child(Cur, x, i).heap
            IN  /\ h1[x].keys[i + 1] = ks[t]
                /\ Len(h1[x].keys) = Len(heap[x].keys) + 1
                /\ h1[x].children[i + 1] = y
                /\ h1[y].keys = SubSeq(ks, 1, t - 1)
                /\ h1[h1[x].children[i + 2]].keys = SubSeq(ks, t + 1, 2 * t - 1)

\* the keys stored in the leaves of the subtree of x
SubtreeKeys(h, x) ==
    UNION {Range(h[p[1]].keys) : p \in {q \in Below(h, x, 0) : h[q[1]].leaf}}

\* C15: after every operation, for every internal node with keys
\* keys[0..k-1], the keys in the subtree children[0] are below keys[0], those
\* in the subtree children[i], 0 < i < k, lie in [keys[i-1], keys[i]), and
\* those in the subtree children[k] are at least keys[k-1].
C15_SeparatorOrder ==
    ~raised =>
        \A x \in TreeNodes(Cur) :
            ~heap[x].leaf =>
                \A i \in 0..(Len(heap[x].children) - 1) :
                    \A v \in SubtreeKeys(heap, heap[x].children[i + 1]) :
                        /\ i < Len(heap[x].keys) => v < heap[x].keys[i + 1]
                        /\ (i > 0 /\ i <= Len(heap[x].keys)) => v >= heap[x].keys[i]

\* C16: whenever delete descends from an internal node into children[i] for
\* a key not found at that node, the node entered holds at least t keys at
\* the moment of the descent, whatever the child position i.
C16_DescentHasSpare ==
    ~raised =>
        \A k \in DistinctKeys :
            LET e == delete(Cur, k).entered
            IN  \A j \in 1..Len(e) : e[j] >= t

\* C17: every delete(k) call returns normally: no delete raises, in
\* particular not after the last child was merged into its left sibling.
C17_DeleteReturns ==
    last.op = "delete" => ~raised

\* the calls _merge(x, i) that lines 92-108 make on two adjacent leaf
\* children of a node of T: neither leaf has a key to spare
LeafPairs(T) ==
    {p \in TreeNodes(T) \X (0..(2 * t)) :
        /\ ~T.heap[p[1]].leaf
        /\ p[2] + 1 < Len(T.heap[p[1]].children)
        /\ p[2] < Len(T.heap[p[1]].keys)
        /\ T.heap[T.heap[p[1]].children[p[2] + 1]].leaf
        /\ T.heap[T.heap[p[1]].children[p[2] + 2]].leaf
        /\ ~HasSpare(T, p[1], p[2])
        /\ ~HasSpare(T, p[1], p[2] + 1)}

\* C18: merging the adjacent leaf children children[i] and children[i+1]
\* leaves in the surviving leaf exactly the left leaf's keys followed by the
\* right leaf's keys (no separator added), gives it the right leaf's old
\* next, and removes keys[i] and children[i+1] from the parent.
C18_LeafMerge ==
    ~raised =>
        \A p \in LeafPairs(Cur) :
            LET x == p[1]
                i == p[2]
                l == heap[x].children[i + 1]
                r == heap[x].children[i + 2]
                h1 == merge(Cur, x, i).heap
            IN  /\ h1[l].keys = heap[l].keys \o heap[r].keys
                /\ h1[l].next = heap[r].next
                /\ h1[x].keys = ListPop(heap[x].keys, i)
                /\ h1[x].children = ListPop(heap[x].children, i + 1)

\* the number of levels below the root of T
Height(T) == CHOOSE d \in LeafDepths(T) : \A e \in LeafDepths(T) : e <= d

\* C19: an insert call raises the height, by exactly one, if and only if
\* the root holds 2t-1 keys when the call starts; a delete call lowers the
\* height, by exactly one, only when _delete_internal leaves the root an
\* internal node with zero keys; no call changes the height otherwise.
C19_HeightAtRoot ==
    [][/\ last'.op = "insert" =>
            Height(Cur)' = Height(Cur)
                + (IF Len(heap[root].keys) = 2 * t - 1 THEN 1 ELSE 0)
       /\ last'.op = "delete" =>
            LET T1 == delete_internal(Cur, root, last'.key)
                r  == T1.heap[T1.root]
            IN  \/ Height(Cur)' = Height(Cur)
                \/ /\ Height(Cur)' = Height(Cur) - 1
                   /\ ~T1.err /\ ~r.leaf /\ Len(r.keys) = 0]_vars

\* C19 witness: with t = 2, the inserts 1, 2, 3, 3 met a full root and made
\* the tree two levels high, and after delete(3), delete(1) the delete(2)
\* emptied the root and left the tree a single leaf.
C19_Witness ==
    /\ t = 2
    /\ ~raised
    /\ calls = 7
    /\ last = [op |-> "delete", key |-> 2]
    /\ LET T0 == InsertAll(Tree(<<BPlusNode(TRUE)>>, 1), <<1, 2, 3, 3>>)
           T1 == DeleteAll(T0, <<3, 1>>)
       IN  /\ Height(T0) = 1
           /\ Height(T1) = 1
           /\ heap = Normalize(delete(T1, 2)).heap
    /\ Height(Cur) = 0

\* the leaves met by following next from leaf x, at most fuel of them
RECURSIVE ChainNodes(_, _, _)
ChainNodes(h, x, fuel) ==
    IF x = None \/ fuel = 0 THEN <<>>
    ELSE <<x>> \o ChainNodes(h, h[x].next, fuel - 1)

\* the leaves of the subtree of x from left to right; j counts the children
\* of x already visited
RECURSIVE Leaves(_, _, _)
Leaves(h, x, j) ==
    IF h[x].leaf THEN <<x>>
    ELSE IF j >= Len(h[x].children) THEN <<>>
    ELSE Leaves(h, h[x].children[j + 1], 0) \o Leaves(h, x, j + 1)

\* C20: after every insert or delete that returned, following next from
\* the leftmost leaf visits the leaves reachable from the root, each once,
\* from left to right, and then reaches None: no other node is on the
\* chain and the chain does not come back to a leaf.
C20_LeafChain ==
    ~raised =>
        ChainNodes(heap, leftmost(heap, root), Len(heap) + 1)
            = Leaves(heap, root, 0)

\* C20 witness: with t = 2, the delete(2) that follows the inserts 1, 2, 2,
\* 1, 1 merged the last two of three leaves, and the chain of the tree it
\* left is its two leaves.
C20_Witness ==
    /\ t = 2
    /\ ~raised
    /\ calls = 6
    /\ last = [op |-> "delete", key |-> 2]
    /\ LET T0 == InsertAll(Tree(<<BPlusNode(TRUE)>>, 1), <<1, 2, 2, 1, 1>>)
       IN  /\ Len(Leaves(T0.heap, T0.root, 0)) = 3
           /\ heap = Normalize(delete(T0, 2)).heap
    /\ Len(Leaves(heap, root, 0)) = 2
    /\ Len(ChainNodes(heap, leftmost(heap, root), Len(heap) + 1)) = 2

\* the number of occurrences of v in the list s
Count(s, v) == Cardinality({j \in 1..Len(s) : s[j] = v})

\* C21: delete(k) for a key k stored in a leaf, when it returns, leaves on
\* the leaf chain the multiset of keys that was there before the call
\* minus one k: one occurrence of k less and every other key as often as
\* before.
C21_DeleteRemovesOne ==
    ~raised =>
        \A k \in Range(LeafChain(Cur)) :
            LET T1 == delete(Cur, k)
            IN  ~T1.err =>
                    \A v \in Range(LeafChain(Cur)) \cup Range(LeafChain(T1)) :
                        Count(LeafChain(T1), v)
                            = Count(LeafChain(Cur), v) - (IF v = k THEN 1 ELSE 0)

\* C22: every insert(k) call, for a key already stored as for a new one,
\* returns and leaves on the leaf chain the multiset of keys that was there
\* before the call plus one k: one occurrence of k more, every other key as
\* often as before.
C22_InsertAddsOne ==
    ~raised =>
        \A k \in Keys :
            LET T1 == insert(Cur, k)
            IN  /\ ~T1.err
                /\ \A v \in Keys \cup Range(LeafChain(Cur)) \cup Range(LeafChain(T1)) :
                        Count(LeafChain(T1), v)
                            = Count(LeafChain(Cur), v) + (IF v = k THEN 1 ELSE 0)

====
